---- MODULE Spec2Model ----
(***************************************************************************)
(* Model of src/main.py: a straight-line analysis script that loads a      *)
(* survey table, cleans it, renders plots, min-max scales three columns,   *)
(* fits a one-feature linear regression and reports its error.             *)
(*                                                                         *)
(* Numbers are exact rationals [nan, n, d] (n/d in lowest terms, d > 0);   *)
(* floating-point rounding is not modelled.  NaN is the pandas/numpy       *)
(* missing marker and propagates through arithmetic.  Strings are          *)
(* sequences of one-character strings; NA is a missing string cell.        *)
(***************************************************************************)
EXTENDS Integers, Sequences, FiniteSets, TLC

VARIABLES pc, df, df_clean, shared, figures, scaler, split, model, long_norm, result, y_pred, mse

vars == <<pc, df, df_clean, shared, figures, scaler, split, model, long_norm, result, y_pred, mse>>

\* ------------------------------------------------------------------ bounds
MaxRows == 3
MaxStrLen == 3

\* ------------------------------------------------------- rational numbers
NaN == [nan |-> TRUE, n |-> 0, d |-> 1]

Abs(a) == IF a < 0 THEN -a ELSE a

RECURSIVE Gcd(_, _)
Gcd(a, b) == IF b = 0 THEN a ELSE Gcd(b, a % b)

\* the rational n/d (d # 0) in lowest terms with a positive denominator
R(n, d) ==
    LET g == Gcd(Abs(n), Abs(d))
        s == IF d < 0 THEN -1 ELSE 1
    IN  [nan |-> FALSE, n |-> (s * n) \div g, d |-> (s * d) \div g]

Int2R(k) == R(k, 1)

RAdd(a, b) == IF a.nan \/ b.nan THEN NaN ELSE R(a.n * b.d + b.n * a.d, a.d * b.d)
RSub(a, b) == IF a.nan \/ b.nan THEN NaN ELSE R(a.n * b.d - b.n * a.d, a.d * b.d)
RMul(a, b) == IF a.nan \/ b.nan THEN NaN ELSE R(a.n * b.n, a.d * b.d)
\* numpy float division: x/0 is inf or nan, never an exception; the model folds both into NaN
RDiv(a, b) == IF a.nan \/ b.nan \/ b.n = 0 THEN NaN ELSE R(a.n * b.d, a.d * b.n)
\* comparisons with NaN are false
RLe(a, b) == ~a.nan /\ ~b.nan /\ a.n * b.d <= b.n * a.d
RLt(a, b) == ~a.nan /\ ~b.nan /\ a.n * b.d < b.n * a.d

RECURSIVE RSum(_)
RSum(s) == IF s = <<>> THEN Int2R(0) ELSE RAdd(Head(s), RSum(Tail(s)))

\* the sub-sequence of s whose elements satisfy Keep
RECURSIVE SelectNum(_)
SelectNum(s) ==
    IF s = <<>> THEN <<>>
    ELSE IF Head(s).nan THEN SelectNum(Tail(s))
    ELSE <<Head(s)>> \o SelectNum(Tail(s))

RECURSIVE RMinSeq(_)
RMinSeq(s) ==
    IF Len(s) = 1 THEN Head(s)
    ELSE LET m == RMinSeq(Tail(s)) IN IF RLe(Head(s), m) THEN Head(s) ELSE m

RECURSIVE RMaxSeq(_)
RMaxSeq(s) ==
    IF Len(s) = 1 THEN Head(s)
    ELSE LET m == RMaxSeq(Tail(s)) IN IF RLe(m, Head(s)) THEN Head(s) ELSE m

\* ------------------------------------------------------------------ strings
NA == [na |-> TRUE, s |-> <<>>]
Str(s) == [na |-> FALSE, s |-> s]

LowerChars == <<"a", "b", "c", "d", "e", "f", "g", "h", "i", "j", "k", "l", "m",
                "n", "o", "p", "q", "r", "s", "t", "u", "v", "w", "x", "y", "z">>
UpperChars == <<"A", "B", "C", "D", "E", "F", "G", "H", "I", "J", "K", "L", "M",
                "N", "O", "P", "Q", "R", "S", "T", "U", "V", "W", "X", "Y", "Z">>

\* each letter's position in its alphabet
LowerIndex == [c \in {LowerChars[i] : i \in 1..Len(LowerChars)} |->
                  CHOOSE i \in 1..Len(LowerChars) : LowerChars[i] = c]
UpperIndex == [c \in {UpperChars[i] : i \in 1..Len(UpperChars)} |->
                  CHOOSE i \in 1..Len(UpperChars) : UpperChars[i] = c]

IsLower(c) == c \in DOMAIN LowerIndex
IsUpper(c) == c \in DOMAIN UpperIndex
IsSpace(c) == c = " "
ToUpper(c) == IF IsLower(c) THEN UpperChars[LowerIndex[c]] ELSE c
ToLower(c) == IF IsUpper(c) THEN LowerChars[UpperIndex[c]] ELSE c

\* str.strip(): drop leading and trailing whitespace
RECURSIVE LStrip(_)
LStrip(s) == IF s # <<>> /\ IsSpace(Head(s)) THEN LStrip(Tail(s)) ELSE s

RECURSIVE RStrip(_)
RStrip(s) == IF s # <<>> /\ IsSpace(s[Len(s)]) THEN RStrip(SubSeq(s, 1, Len(s) - 1)) ELSE s

\* a strip of the leading whitespace only
StripLeading(s) == LStrip(s)

Strip(s) == RStrip(LStrip(s))

\* str.title(): a left-to-right scan; a cased character is upper-cased when the
\* previous character was uncased and lower-cased when it was cased
RECURSIVE TitleScan(_, _)
TitleScan(s, prevCased) ==
    IF s = <<>> THEN <<>>
    ELSE LET c == Head(s) IN
         IF IsLower(c)
         THEN <<IF prevCased THEN c ELSE ToUpper(c)>> \o TitleScan(Tail(s), TRUE)
         ELSE IF IsUpper(c)
         THEN <<IF prevCased THEN ToLower(c) ELSE c>> \o TitleScan(Tail(s), TRUE)
         ELSE <<c>> \o TitleScan(Tail(s), FALSE)

Title(s) == TitleScan(s, FALSE)

\* Series.str.strip().str.title(): missing cells stay missing
StripTitle(v) == IF v.na THEN NA ELSE Str(Title(Strip(v.s)))

\* ------------------------------------------------------------------- tables
\* A table is a sequence of rows; a row is a record of cells plus its pandas
\* index label, which row filtering keeps.
num_cols == <<"rating", "latitude", "longitude">>
str_cols == <<"inout_travelling", "operator", "network_type", "calldrop_category", "state_name">>

Sentinel == R(-1, 1)

SeqRange(s) == {s[i] : i \in 1..Len(s)}

Column(t, c) == [i \in 1..Len(t) |-> t[i][c]]

\* a mean that divides by the number of rows, missing ones included
MeanOverAllRows(col) ==
    LET present == SelectNum(col)
    IN  IF present = <<>> THEN NaN ELSE RDiv(RSum(present), Int2R(Len(col)))

\* Series.mean(): the arithmetic mean of the non-missing entries, NaN when there are none
Mean(col) ==
    LET present == SelectNum(col)
    IN  IF present = <<>> THEN NaN ELSE RDiv(RSum(present), Int2R(Len(present)))

\* line 31: .replace(-1.0, np.nan) on one cell
ReplaceCell(v) == IF v = Sentinel THEN NaN ELSE v

\* line 31: latitude and longitude with the sentinel replaced by the missing marker
SentinelReplaced(t) ==
    [i \in 1..Len(t) |->
        [t[i] EXCEPT !.latitude = ReplaceCell(@), !.longitude = ReplaceCell(@)]]

\* line 35: the value fillna writes into column c: the mean of the column as it stands
FillValue(t, c) == Mean(Column(t, c))

\* line 35: fillna on one cell; a NaN fill value leaves the cell missing
FillCell(v, fill) == IF v.nan THEN fill ELSE v

\* line 35: both fill values are computed before either column is filled
MeanFilled(t) ==
    LET flat == FillValue(t, "latitude")
        flon == FillValue(t, "longitude")
    IN  [i \in 1..Len(t) |->
            [t[i] EXCEPT !.latitude = FillCell(@, flat), !.longitude = FillCell(@, flon)]]

\* a mask that keeps every row
KeepEveryRow(r) == TRUE

\* line 36: the row mask df_clean['state_name'].notna()
KeepRow(r) == ~r.state_name.na

RECURSIVE FilterRows(_)
FilterRows(t) ==
    IF t = <<>> THEN <<>>
    ELSE IF KeepRow(Head(t)) THEN <<Head(t)>> \o FilterRows(Tail(t))
    ELSE FilterRows(Tail(t))

\* lines 39-40: one column of the loop
NormaliseColumn(t, c) == [i \in 1..Len(t) |-> [t[i] EXCEPT ![c] = StripTitle(@)]]

\* lines 38-40: the loop over str_cols, in order
RECURSIVE NormaliseColumns(_, _)
NormaliseColumns(t, cols) ==
    IF cols = <<>> THEN t
    ELSE NormaliseColumns(NormaliseColumn(t, Head(cols)), Tail(cols))

StringsNormalised(t) == NormaliseColumns(t, str_cols)

\* ----------------------------------------------------------- MinMaxScaler
\* np.nanmin / np.nanmax of a column: missing entries are skipped
NanMin(col) == LET present == SelectNum(col) IN IF present = <<>> THEN NaN ELSE RMinSeq(present)
NanMax(col) == LET present == SelectNum(col) IN IF present = <<>> THEN NaN ELSE RMaxSeq(present)

\* a zero data range is replaced by 1 before it divides
HandleZeros(r) == IF ~r.nan /\ r.n = 0 THEN Int2R(1) ELSE r

\* line 117, fit: per-column minimum, maximum, scale and offset for feature_range (0, 1)
ScalerFit(t) ==
    LET lo == [j \in 1..Len(num_cols) |-> NanMin(Column(t, num_cols[j]))]
        hi == [j \in 1..Len(num_cols) |-> NanMax(Column(t, num_cols[j]))]
        sc == [j \in 1..Len(num_cols) |-> RDiv(Int2R(1), HandleZeros(RSub(hi[j], lo[j])))]
    IN  [fitted |-> TRUE, data_min |-> lo, data_max |-> hi, scale |-> sc,
         min |-> [j \in 1..Len(num_cols) |-> RSub(Int2R(0), RMul(lo[j], sc[j]))]]

\* transform of one value of column j: X * scale_ + min_
Transform(sc, j, v) == RAdd(RMul(v, sc.scale[j]), sc.min[j])

\* line 117, the assignment back into the three columns, by column position
Scaled(t, sc) ==
    [i \in 1..Len(t) |->
        [t[i] EXCEPT !.rating = Transform(sc, 1, @),
                     !.latitude = Transform(sc, 2, @),
                     !.longitude = Transform(sc, 3, @)]]

\* ------------------------------------------------------- train_test_split
TestSize == R(1, 5)

Ceil(r) == -((-r.n) \div r.d)

\* line 134: the number of test rows for n samples, ceil(test_size * n)
NTest(n) == Ceil(RMul(TestSize, Int2R(n)))

Labels(t) == {t[i].index : i \in 1..Len(t)}

RowAt(t, l) == t[CHOOSE i \in 1..Len(t) : t[i].index = l]

\* lines 132-133: x = df_clean[['longitude']], y = df_clean['rating'], keyed by index label
FeatureX(t) == [l \in Labels(t) |-> RowAt(t, l).longitude]
TargetY(t) == [l \in Labels(t) |-> RowAt(t, l).rating]

Restrict(f, S) == [l \in S |-> f[l]]

\* ------------------------------------------------------- LinearRegression
RECURSIVE SumOver(_, _)
SumOver(f, S) ==
    IF S = {} THEN Int2R(0)
    ELSE LET l == CHOOSE l \in S : TRUE IN RAdd(f[l], SumOver(f, S \ {l}))

MeanOver(f) == RDiv(SumOver(f, DOMAIN f), Int2R(Cardinality(DOMAIN f)))

HasNaN(f) == \E l \in DOMAIN f : f[l].nan

\* ordinary least squares of y on the single feature x with an intercept; a
\* feature with no variance gets the minimum-norm coefficient 0
FitOLS(x, y) ==
    LET xm == MeanOver(x)
        ym == MeanOver(y)
        sxx == SumOver([l \in DOMAIN x |-> RMul(RSub(x[l], xm), RSub(x[l], xm))], DOMAIN x)
        sxy == SumOver([l \in DOMAIN x |-> RMul(RSub(x[l], xm), RSub(y[l], ym))], DOMAIN x)
        b == IF sxx.n = 0 THEN Int2R(0) ELSE RDiv(sxy, sxx)
    IN  [fitted |-> TRUE, coef |-> b, intercept |-> RSub(ym, RMul(b, xm))]

PredictOne(m, v) == RAdd(m.intercept, RMul(m.coef, v))

Predict(m, x) == [l \in DOMAIN x |-> PredictOne(m, x[l])]

\* mean_squared_error(y_true, y_hat)
MeanSquaredError(y_true, y_hat) ==
    MeanOver([l \in DOMAIN y_true |->
                 RMul(RSub(y_true[l], y_hat[l]), RSub(y_true[l], y_hat[l]))])

\* ------------------------------------------------------------------- inputs
Delhi == Str(<<" ", "d", "e", "l", "h", "i", " ">>)
Karnataka == Str(<<"K", "a", "r", "n", "a", "t", "a", "k", "a">>)

\* a row of the loaded table with pandas' default RangeIndex label i - 1
BaseRow(i) ==
    [index |-> i - 1,
     rating |-> Int2R(i), latitude |-> Int2R(1), longitude |-> Int2R(2),
     state_name |-> Karnataka,
     operator |-> Str(<<"j", "i", "o">>),
     network_type |-> Str(<<"4", "g">>),
     calldrop_category |-> Str(<<"N", "O", " ", "d", "r", "o", "p">>),
     inout_travelling |-> Str(<<" ", "I", "n">>),
     month |-> i, year |-> 2018]

\* cells of a loaded row for the cleaning stage: <<latitude, longitude, state_name>>
LatVals == {NaN, Sentinel, Int2R(-3), Int2R(1)}
LonVals == {Sentinel, Int2R(2), Int2R(4)}
CleanCells ==
    (LatVals \X LonVals \X {Delhi})
    \cup ({Sentinel, Int2R(1)} \X {Sentinel, Int2R(4)} \X {NA})

CleanRow(i, cell) ==
    [BaseRow(i) EXCEPT !.latitude = cell[1], !.longitude = cell[2], !.state_name = cell[3]]

IsCleanTable(t) ==
    \E k \in 0..MaxRows : \E f \in [1..k -> CleanCells] : t = [i \in 1..k |-> CleanRow(i, f[i])]

Alphabet == {" ", "a", "B", "'"}

RECURSIVE StringsUpTo(_)
StringsUpTo(k) ==
    IF k = 0 THEN {<<>>}
    ELSE LET shorter == StringsUpTo(k - 1)
         IN  shorter \cup {Append(s, c) : s \in {x \in shorter : Len(x) = k - 1}, c \in Alphabet}

RawStrings == {NA} \cup {Str(s) : s \in StringsUpTo(MaxStrLen)}

\* a two-row table whose first row has one string cell drawn from RawStrings
IsStrTable(t) ==
    \E c \in SeqRange(str_cols) : \E s \in RawStrings :
        t = <<[BaseRow(1) EXCEPT ![c] = s], BaseRow(2)>>

\* cells of a loaded row for the whole script: <<rating, latitude, longitude, state_name>>
RegCells ==
    ({Int2R(3), Int2R(5)} \X {Int2R(1)} \X {Int2R(2), Int2R(4)} \X {Delhi})
    \cup {<<Int2R(3), Int2R(-3), Int2R(2), Delhi>>,
          <<Int2R(5), Int2R(-3), Int2R(4), Delhi>>,
          <<Int2R(3), Sentinel, Sentinel, Delhi>>,
          <<Int2R(5), NaN, Int2R(2), Karnataka>>,
          <<Int2R(5), Int2R(1), Int2R(4), NA>>}

RegRow(i, cell) ==
    [BaseRow(i) EXCEPT !.rating = cell[1], !.latitude = cell[2],
                       !.longitude = cell[3], !.state_name = cell[4]]

IsRegTable(t) ==
    \E k \in 0..MaxRows : \E f \in [1..k -> RegCells] : t = [i \in 1..k |-> RegRow(i, f[i])]

\* ---------------------------------------------------------------- the script
NoScaler == [fitted |-> FALSE, data_min |-> <<>>, data_max |-> <<>>, scale |-> <<>>, min |-> <<>>]
NoSplit == [done |-> FALSE, x_train |-> <<>>, x_test |-> <<>>, y_train |-> <<>>, y_test |-> <<>>]
NoModel == [fitted |-> FALSE, coef |-> NaN, intercept |-> NaN]

\* a program that draws the scatter plot before it normalizes
ScatterBeforeScale ==
    <<"copy", "replace", "fill", "drop", "strings",
      "plot1", "plot2", "plot3", "plot4", "plot5", "plot6", "plot7",
      "plot8", "scale", "split", "fit", "predict", "plot9", "evaluate", "done">>

\* the statements of the script in program order, one label per statement group
Program ==
    <<"copy", "replace", "fill", "drop", "strings",
      "plot1", "plot2", "plot3", "plot4", "plot5", "plot6", "plot7",
      "scale", "plot8", "split", "fit", "predict", "plot9", "evaluate", "done">>

\* the statement that runs once statement l has completed
After(l) == Program[(CHOOSE i \in 1..Len(Program) : Program[i] = l) + 1]

\* an uncaught library exception ends the process
Crash ==
    /\ pc' = "crashed"
    /\ UNCHANGED <<df, df_clean, shared, figures, scaler, split, model, long_norm, result, y_pred, mse>>

\* line 24: the state once the spreadsheet is read, nothing else computed yet
Loaded ==
    /\ pc = Program[1]
    /\ df_clean = <<>>
    /\ shared = FALSE
    /\ figures = <<>>
    /\ scaler = NoScaler
    /\ split = NoSplit
    /\ model = NoModel
    /\ long_norm = NaN
    /\ result = NaN
    /\ y_pred = <<>>
    /\ mse = NaN

Init == Loaded /\ IsRegTable(df)

InitClean == Loaded /\ (IsCleanTable(df) \/ IsStrTable(df))

\* an assignment without .copy()
NoCopy == FALSE

\* line 30: .copy() makes df_clean a table of its own
DeepCopy == TRUE

\* line 30; shared records whether df_clean is the very object df names
Copy ==
    /\ pc = "copy"
    /\ df_clean' = df
    /\ shared' = ~DeepCopy
    /\ pc' = After(pc)
    /\ UNCHANGED <<df, figures, scaler, split, model, long_norm, result, y_pred, mse>>

\* line 31: the column assignment writes into the object df_clean names
ReplaceSentinel ==
    /\ pc = "replace"
    /\ df_clean' = SentinelReplaced(df_clean)
    /\ df' = IF shared THEN SentinelReplaced(df_clean) ELSE df
    /\ pc' = After(pc)
    /\ UNCHANGED <<shared, figures, scaler, split, model, long_norm, result, y_pred, mse>>

\* line 35: fillna returns a new table, which df_clean then names
FillMean ==
    /\ pc = "fill"
    /\ df_clean' = MeanFilled(df_clean)
    /\ shared' = FALSE
    /\ pc' = After(pc)
    /\ UNCHANGED <<df, figures, scaler, split, model, long_norm, result, y_pred, mse>>

\* line 36
DropMissingState ==
    /\ pc = "drop"
    /\ df_clean' = FilterRows(df_clean)
    /\ pc' = After(pc)
    /\ UNCHANGED <<df, shared, figures, scaler, split, model, long_norm, result, y_pred, mse>>

\* lines 38-40; in the cleaning-stage specification the script is followed no further
NormaliseStrings ==
    /\ pc = "strings"
    /\ df_clean' = StringsNormalised(df_clean)
    /\ pc' = After(pc)
    /\ UNCHANGED <<df, shared, figures, scaler, split, model, long_norm, result, y_pred, mse>>

\* what a figure shows: the table it is drawn from and, for the regression
\* overlay, the fitted line
Figure(k) == [id |-> k, table |-> df_clean, line |-> IF k = 9 THEN model ELSE NoModel]

PlotLabel(k) == <<"plot1", "plot2", "plot3", "plot4", "plot5", "plot6", "plot7", "plot8", "plot9">>[k]

\* lines 51-113: figures 1 to 7, one plt.show() each
RenderCleaned ==
    /\ \E k \in 1..7 : pc = PlotLabel(k) /\ figures' = Append(figures, Figure(k))
    /\ pc' = After(pc)
    /\ UNCHANGED <<df, df_clean, shared, scaler, split, model, long_norm, result, y_pred, mse>>

\* lines 116-117: fit_transform raises on a table with no rows
Normalize ==
    /\ pc = "scale"
    /\ IF df_clean = <<>>
       THEN Crash
       ELSE /\ scaler' = ScalerFit(df_clean)
            /\ df_clean' = Scaled(df_clean, ScalerFit(df_clean))
            /\ pc' = After(pc)
            /\ UNCHANGED <<df, shared, figures, split, model, long_norm, result, y_pred, mse>>

\* lines 122-129: figure 8, the scatter of normalized longitude against rating
RenderScatter ==
    /\ pc = "plot8"
    /\ figures' = Append(figures, Figure(8))
    /\ pc' = After(pc)
    /\ UNCHANGED <<df, df_clean, shared, scaler, split, model, long_norm, result, y_pred, mse>>

\* the rows train_test_split puts in the test set: the shuffle seeded with 42 is
\* library code, so any subset of the required size is allowed
TestSets(t) == {S \in SUBSET Labels(t) : Cardinality(S) = NTest(Len(t))}

\* a train set that keeps the test rows
TrainWithTestRows(t, test) == Labels(t)

\* line 134: the rows left for training
TrainSet(t, test) == Labels(t) \ test

\* line 137: the data the model is fitted on
FitX == split.x_train
FitY == split.y_train

\* line 157-158: the data the error is computed on
EvalX == split.x_test
EvalY == split.y_test

\* lines 132-134: train_test_split raises when the train set would be empty
Split ==
    /\ pc = "split"
    /\ IF Len(df_clean) - NTest(Len(df_clean)) = 0
       THEN Crash
       ELSE /\ \E test \in TestSets(df_clean) :
                 LET train == TrainSet(df_clean, test)
                     x == FeatureX(df_clean)
                     y == TargetY(df_clean)
                 IN  split' = [done |-> TRUE,
                               x_train |-> Restrict(x, train), x_test |-> Restrict(x, test),
                               y_train |-> Restrict(y, train), y_test |-> Restrict(y, test)]
            /\ pc' = After(pc)
            /\ UNCHANGED <<df, df_clean, shared, figures, scaler, model, long_norm, result, y_pred, mse>>

\* lines 136-137: fit raises on missing values
Fit ==
    /\ pc = "fit"
    /\ IF HasNaN(FitX) \/ HasNaN(FitY)
       THEN Crash
       ELSE /\ model' = FitOLS(FitX, FitY)
            /\ pc' = After(pc)
            /\ UNCHANGED <<df, df_clean, shared, figures, scaler, split, long_norm, result, y_pred, mse>>

\* line 140: the placeholder row handed to the three-column scaler
ProbeRow == <<Int2R(0), R(41, 2), Int2R(0)>>

\* line 140: the 0-based position read back from the transformed row
ProbeIndex == 1

\* line 140: scaler.transform([[0, 20.5, 0]])[0][1]
ProbeValue(sc) == Transform(sc, ProbeIndex + 1, ProbeRow[ProbeIndex + 1])

\* lines 140-143: predict raises on a missing feature value
PredictExample ==
    /\ pc = "predict"
    /\ IF ProbeValue(scaler).nan
       THEN /\ long_norm' = ProbeValue(scaler)
            /\ pc' = "crashed"
            /\ UNCHANGED <<df, df_clean, shared, figures, scaler, split, model, result, y_pred, mse>>
       ELSE /\ long_norm' = ProbeValue(scaler)
            /\ result' = PredictOne(model, ProbeValue(scaler))
            /\ pc' = After(pc)
            /\ UNCHANGED <<df, df_clean, shared, figures, scaler, split, model, y_pred, mse>>

\* lines 146-154: figure 9, the fitted line over the scatter
RenderRegression ==
    /\ pc = "plot9"
    /\ figures' = Append(figures, Figure(9))
    /\ pc' = After(pc)
    /\ UNCHANGED <<df, df_clean, shared, scaler, split, model, long_norm, result, y_pred, mse>>

\* lines 157-159
Evaluate ==
    /\ pc = "evaluate"
    /\ y_pred' = Predict(model, EvalX)
    /\ mse' = MeanSquaredError(EvalY, Predict(model, EvalX))
    /\ pc' = After(pc)
    /\ UNCHANGED <<df, df_clean, shared, figures, scaler, split, model, long_norm, result>>

\* the cleaning stage, lines 30-40
NextClean ==
    \/ Copy
    \/ ReplaceSentinel
    \/ FillMean
    \/ DropMissingState
    \/ NormaliseStrings

Next ==
    \/ NextClean
    \/ RenderCleaned
    \/ Normalize
    \/ RenderScatter
    \/ Split
    \/ Fit
    \/ PredictExample
    \/ RenderRegression
    \/ Evaluate

\* the whole script
Spec == Init /\ [][Next]_vars

\* the cleaning stage alone, over a wider set of loaded tables
SpecClean == InitClean /\ [][NextClean]_vars

\* =================================================================== claims
\* the cleaning stage (lines 30-40) has just completed
Cleaned == pc = "plot1"

\* the loaded row that carries index label l
LoadedRow(l) == RowAt(df, l)

IsMissingCoord(v) == v.nan \/ v = Sentinel

\* the positions of column c of the loaded table that hold a real coordinate
ValidAt(c) == {i \in 1..Len(df) : ~IsMissingCoord(df[i][c])}

\* v is the arithmetic mean of the real coordinates of loaded column c
\* (count * v = sum), or the missing marker when there are none
IsValidMean(v, c) ==
    IF ValidAt(c) = {} THEN v = NaN
    ELSE ~v.nan /\ RMul(v, Int2R(Cardinality(ValidAt(c)))) = SumOver(Column(df, c), ValidAt(c))

\* C1: after cleaning, every remaining row has a latitude and a longitude that
\* are non-null and not equal to the sentinel -1.0
C1_CoordinatesPresent ==
    Cleaned =>
        \A i \in 1..Len(df_clean) :
            /\ ~IsMissingCoord(df_clean[i].latitude)
            /\ ~IsMissingCoord(df_clean[i].longitude)

\* C2: every latitude (longitude) that was loaded missing or as the sentinel
\* holds, once filled, the mean of the loaded column's real values, sentinel and
\* missing entries (and nothing else) left out of the mean
C2_MeanImputation ==
    pc \in {"drop", "strings", "plot1"} =>
        \A i \in 1..Len(df_clean) :
            \A c \in {"latitude", "longitude"} :
                IsMissingCoord(LoadedRow(df_clean[i].index)[c]) => IsValidMean(df_clean[i][c], c)

\* C2 witness: the spec's scenario, a sentinel latitude in a " delhi " row next
\* to a single real latitude, ends with that latitude and "Delhi"
C2_Witness ==
    /\ Cleaned
    /\ Len(df) = 2
    /\ df[1].latitude = Sentinel /\ df[1].state_name = Delhi
    /\ df[2].latitude = Int2R(1)
    /\ Len(df_clean) = 2
    /\ df_clean[1].latitude = Int2R(1)
    /\ df_clean[1].state_name = Str(<<"D", "e", "l", "h", "i">>)

\* C3: after cleaning no row has a missing state_name, and no loaded row whose
\* state_name is missing is in the cleaned table
C3_StateNamePresent ==
    Cleaned =>
        /\ \A i \in 1..Len(df_clean) : ~df_clean[i].state_name.na
        /\ \A i \in 1..Len(df) : df[i].state_name.na => df[i].index \notin Labels(df_clean)

\* C3 witness: a table with a missing and a present state_name has been cleaned
C3_Witness ==
    /\ Cleaned
    /\ \E i \in 1..Len(df) : df[i].state_name.na
    /\ df_clean # <<>>

IsLetter(c) == IsLower(c) \/ IsUpper(c)

NoOuterSpace(s) == s = <<>> \/ (~IsSpace(s[1]) /\ ~IsSpace(s[Len(s)]))

\* every letter that starts a run of letters is upper case, every other letter lower case
IsTitleCased(s) ==
    \A i \in 1..Len(s) :
        IsLetter(s[i]) => (IsUpper(s[i]) <=> (i = 1 \/ ~IsLetter(s[i - 1])))

\* C4: after cleaning, every string held by one of the five string columns has
\* no leading or trailing whitespace and is title-cased, a word being a run of letters
C4_StringsNormalised ==
    Cleaned =>
        \A i \in 1..Len(df_clean) :
            \A c \in SeqRange(str_cols) :
                ~df_clean[i][c].na =>
                    NoOuterSpace(df_clean[i][c].s) /\ IsTitleCased(df_clean[i][c].s)

\* C4 witness: a loaded operator with a leading space, an upper-case letter
\* inside a word and a trailing space has been normalised
C4_Witness ==
    /\ Cleaned
    /\ Len(df) = 2 /\ Len(df_clean) = 2
    /\ df[1].operator = Str(<<" ", "a", "B">>)
    /\ df_clean[1].operator = Str(<<"A", "b">>)

\* what lines 30-40 make of the loaded table
CleanedTable == StringsNormalised(FilterRows(MeanFilled(SentinelReplaced(df))))

InUnit(v) == RLe(Int2R(0), v) /\ RLe(v, Int2R(1))

\* column j of the scaled table lies in [0,1], is (v - min) / (max - min) of the
\* cleaned column, and reaches 0 and 1 when the cleaned column is not constant
UnitRange(cleaned, j) ==
    LET c == num_cols[j]
        lo == NanMin(Column(cleaned, c))
        hi == NanMax(Column(cleaned, c))
    IN  /\ \A i \in 1..Len(df_clean) : InUnit(df_clean[i][c])
        /\ lo # hi =>
            /\ \E i \in 1..Len(df_clean) : df_clean[i][c] = Int2R(0)
            /\ \E i \in 1..Len(df_clean) : df_clean[i][c] = Int2R(1)
            /\ \A i \in 1..Len(df_clean) :
                   df_clean[i][c] = RDiv(RSub(cleaned[i][c], lo), RSub(hi, lo))

\* C5: after scaling, rating, latitude and longitude each lie in [0,1], reach 0
\* and 1 when not constant, and equal (v - min) / (max - min)
C5_ScaledUnitRange ==
    scaler.fitted =>
        LET cleaned == CleanedTable IN \A j \in 1..Len(num_cols) : UnitRange(cleaned, j)

\* the same for the runs in which cleaning left no coordinate missing
ScaledUnitRangeIfPresent ==
    scaler.fitted =>
        LET cleaned == CleanedTable IN
        (\A i \in 1..Len(cleaned) : ~cleaned[i].latitude.nan /\ ~cleaned[i].longitude.nan)
            => \A j \in 1..Len(num_cols) : UnitRange(cleaned, j)

\* C6: the feature value of the prediction example is raw longitude 20.5
\* normalized with the minimum and maximum of the cleaned longitude column
C6_ProbeIsLongitude ==
    pc \in {"plot9", "evaluate", "done"} =>
        LET lo == scaler.data_min[3]
            hi == scaler.data_max[3]
        IN  lo # hi => long_norm = RDiv(RSub(R(41, 2), lo), RSub(hi, lo))

Pos(l) == CHOOSE i \in 1..Len(Program) : Program[i] = l

\* C7 as stated: the scatter plot and the regression plot are both rendered
\* only after normalization and after the model has been fitted
C7_BothPlotsAfterFit ==
    \A k \in 1..Len(figures) :
        figures[k].id \in {8, 9} => scaler.fitted /\ model.fitted

\* C7 as amended: the stages run in program order, each on the completed
\* output of the one before; figures 1 to 7 show the cleaned, un-normalized
\* table; figure 8 shows the normalized table and is rendered before the model
\* is fitted; figure 9 shows the normalized table and the fitted model
C7_StagesInSequence ==
    LET cleaned == CleanedTable
        scaled == Scaled(cleaned, ScalerFit(cleaned))
    IN  /\ \A k \in 1..Len(figures) : figures[k].id = k
        /\ \A k \in 1..Len(figures) : k <= 7 => figures[k].table = cleaned
        /\ Len(figures) >= 8 =>
               scaler.fitted /\ figures[8].table = scaled /\ ~figures[8].line.fitted
        /\ Len(figures) >= 9 =>
               model.fitted /\ figures[9].table = scaled /\ figures[9].line = model
        /\ scaler.fitted => Len(figures) >= 7 /\ df_clean = scaled
        /\ split.done => Len(figures) >= 8
        /\ model.fitted => split.done
        /\ ~mse.nan => Len(figures) = 9
        /\ pc # "crashed" =>
               /\ scaler.fitted <=> Pos(pc) > Pos("scale")
               /\ split.done <=> Pos(pc) > Pos("split")
               /\ model.fitted <=> Pos(pc) > Pos("fit")

\* C7 witness: the scatter plot is on screen and the model is not fitted yet
C7_Witness == pc = "fit" /\ Len(figures) = 8 /\ ~model.fitted /\ Len(df_clean) = 3

TrainLabels == DOMAIN split.x_train
TestLabels == DOMAIN split.x_test

\* the residuals of line m over the rows S of the normalized table
Residual(m, l) ==
    RSub(RowAt(df_clean, l).rating, PredictOne(m, RowAt(df_clean, l).longitude))

\* m is a least-squares line of rating on longitude over the rows S: the
\* residuals sum to zero and are orthogonal to the feature
IsLeastSquares(m, S) ==
    /\ SumOver([l \in S |-> Residual(m, l)], S) = Int2R(0)
    /\ SumOver([l \in S |-> RMul(RowAt(df_clean, l).longitude, Residual(m, l))], S) = Int2R(0)

\* C9: train and test partition the rows of the normalized table, the test set
\* holds ceil(20%) of them, the model is a least-squares fit of the train rows
\* and the reported error is the mean squared residual of the test rows
C9_SplitPartition ==
    split.done =>
        /\ TrainLabels \cap TestLabels = {}
        /\ TrainLabels \cup TestLabels = Labels(df_clean)
        /\ 5 * Cardinality(TestLabels) >= Len(df_clean)
        /\ 5 * (Cardinality(TestLabels) - 1) < Len(df_clean)
        /\ DOMAIN split.y_train = TrainLabels /\ DOMAIN split.y_test = TestLabels
        /\ \A l \in TrainLabels :
               /\ split.x_train[l] = RowAt(df_clean, l).longitude
               /\ split.y_train[l] = RowAt(df_clean, l).rating
        /\ \A l \in TestLabels :
               /\ split.x_test[l] = RowAt(df_clean, l).longitude
               /\ split.y_test[l] = RowAt(df_clean, l).rating
        /\ model.fitted => IsLeastSquares(model, TrainLabels)
        /\ pc = "done" =>
               /\ DOMAIN y_pred = TestLabels
               /\ RMul(mse, Int2R(Cardinality(TestLabels)))
                      = SumOver([l \in TestLabels |-> RMul(Residual(model, l), Residual(model, l))],
                                TestLabels)

\* C9 witness: a run to the end with two train rows, a sloped line and a
\* non-zero test error
C9_Witness ==
    /\ pc = "done"
    /\ Cardinality(TrainLabels) = 2 /\ Cardinality(TestLabels) = 1
    /\ model.coef # Int2R(0)
    /\ mse # Int2R(0) /\ ~mse.nan

\* C10: the cleaned table holds exactly the loaded rows with a state_name, in
\* their loaded order, each with its rating, month, year and every real
\* coordinate as loaded; and no step changes the loaded table
C10_OnlyStateRowsDropped ==
    /\ [](Cleaned =>
            /\ Labels(df_clean) = {df[i].index : i \in {k \in 1..Len(df) : ~df[k].state_name.na}}
            /\ \A i, j \in 1..Len(df_clean) : i < j => df_clean[i].index < df_clean[j].index
            /\ \A i \in 1..Len(df_clean) :
                   LET o == LoadedRow(df_clean[i].index) IN
                   /\ df_clean[i].rating = o.rating
                   /\ df_clean[i].month = o.month
                   /\ df_clean[i].year = o.year
                   /\ ~IsMissingCoord(o.latitude) => df_clean[i].latitude = o.latitude
                   /\ ~IsMissingCoord(o.longitude) => df_clean[i].longitude = o.longitude)
    /\ [][df' = df]_vars

\* C10 witness: a row with a state_name and a sentinel latitude is kept while
\* another row is dropped
C10_Witness ==
    /\ Cleaned
    /\ Len(df_clean) < Len(df)
    /\ \E i \in 1..Len(df_clean) : LoadedRow(df_clean[i].index).latitude = Sentinel

====
